---------------------------- MODULE Spec2Model ----------------------------
(***************************************************************************)
(* A model of LogoRecolor.py: the colour parser (ColorConverter), the      *)
(* recolour engine (NonWhiteRecolorer) and the command-line run            *)
(* (CommandLineInterface.run).                                             *)
(*                                                                         *)
(* Text is a sequence of one-character strings, so that stripping,         *)
(* replacing, splitting and number conversion are computed character by    *)
(* character as Python computes them.                                      *)
(***************************************************************************)
EXTENDS Integers, Sequences, FiniteSets, TLC

VARIABLES
    pc,              \* position of the operation being run
    entry,           \* "cli" (CommandLineInterface.run) or "api" (library caller)
    argv,            \* the command line / the caller's arguments
    env,             \* the file system as the run finds it
    args,            \* argparse's namespace
    color_input,     \* the text handed to parse_color
    intended,        \* the (r, g, b) the text was written from, or <<>>
    parsed,          \* what parse_color gave: a colour or ValueError
    white_threshold, \* NonWhiteRecolorer.white_threshold
    new_color,       \* the colour handed to the recolour engine
    image,           \* the RGBA pixels handed to the engine
    recolored,       \* the engine's output pixels, <<>> before it ran
    output_path,     \* recolor_image's output_path
    written,         \* the files the run wrote, in order
    stdout,          \* what the run printed
    stderr,          \* what the run printed on the diagnostic stream
    exit_code,       \* the process's exit status: NotGiven while running
    outcome          \* how an api call ended: None, "returned" or the exception

vars == <<pc, entry, argv, env, args, color_input, intended, parsed,
          white_threshold, new_color, image, recolored, output_path,
          written, stdout, stderr, exit_code, outcome>>

\* a variable an operation has not set yet
None == "None"

\* an optional value is <<>> when not given and <<value>> when given
NotGiven == <<>>

Given(x) == <<x>>

-----------------------------------------------------------------------------
(* Characters and Python's string methods                                  *)

DecDigits == {"0", "1", "2", "3", "4", "5", "6", "7", "8", "9"}

\* the string literal "0123456789abcdef" of parse_color
HexChars == DecDigits \cup {"a", "b", "c", "d", "e", "f"}

DigitVal(c) ==
    CASE c = "0" -> 0  [] c = "1" -> 1  [] c = "2" -> 2  [] c = "3" -> 3
      [] c = "4" -> 4  [] c = "5" -> 5  [] c = "6" -> 6  [] c = "7" -> 7
      [] c = "8" -> 8  [] c = "9" -> 9  [] c \in {"a", "A"} -> 10
      [] c \in {"b", "B"} -> 11  [] c \in {"c", "C"} -> 12
      [] c \in {"d", "D"} -> 13  [] c \in {"e", "E"} -> 14
      [] c \in {"f", "F"} -> 15  [] OTHER -> 99

\* str.lower() on one character
LowerChar(c) ==
    CASE c = "A" -> "a" [] c = "B" -> "b" [] c = "C" -> "c" [] c = "D" -> "d"
      [] c = "E" -> "e" [] c = "F" -> "f" [] c = "G" -> "g" [] c = "R" -> "r"
      [] OTHER -> c

Lower(s) == [i \in DOMAIN s |-> LowerChar(s[i])]

Whitespace == {" "}

RECURSIVE LStripSet(_, _)
LStripSet(s, cs) ==
    IF s # <<>> /\ s[1] \in cs THEN LStripSet(Tail(s), cs) ELSE s

RECURSIVE RStripSet(_, _)
RStripSet(s, cs) ==
    IF s # <<>> /\ s[Len(s)] \in cs
    THEN RStripSet(SubSeq(s, 1, Len(s) - 1), cs) ELSE s

\* str.strip()
Strip(s) == RStripSet(LStripSet(s, Whitespace), Whitespace)

\* str.replace(c, "") for a one-character c
RemoveChar(s, c) == SelectSeq(s, LAMBDA x : x # c)

\* str.replace(sub, ""): leftmost occurrences, scanning on after each
RECURSIVE RemoveSub(_, _)
RemoveSub(s, sub) ==
    IF s = <<>> THEN <<>>
    ELSE IF Len(s) >= Len(sub) /\ SubSeq(s, 1, Len(sub)) = sub
         THEN RemoveSub(SubSeq(s, Len(sub) + 1, Len(s)), sub)
         ELSE <<s[1]>> \o RemoveSub(Tail(s), sub)

\* str.split(c): always at least one part, empty parts kept
RECURSIVE Split(_, _)
Split(s, c) ==
    IF \A i \in DOMAIN s : s[i] # c THEN <<s>>
    ELSE LET k == CHOOSE i \in DOMAIN s :
                      s[i] = c /\ \A j \in 1..(i - 1) : s[j] # c
         IN  <<SubSeq(s, 1, k - 1)>> \o Split(SubSeq(s, k + 1, Len(s)), c)

RECURSIVE DigitsValue(_, _)
DigitsValue(d, base) ==
    IF d = <<>> THEN 0
    ELSE DigitsValue(SubSeq(d, 1, Len(d) - 1), base) * base + DigitVal(d[Len(d)])

ValueError == [ok |-> FALSE, val |-> 0]

\* Python's int(text, base): surrounding whitespace is dropped, one sign is
\* accepted, and what is left must be digits of the base.  (Underscores and
\* the "0x" prefix are further spellings int() accepts; their characters are
\* outside the alphabet the inputs are drawn from.)
PyInt(text, base) ==
    LET t      == Strip(text)
        signed == t # <<>> /\ t[1] \in {"+", "-"}
        d      == IF signed THEN Tail(t) ELSE t
        digits == d # <<>> /\ \A i \in DOMAIN d : DigitVal(d[i]) < base
    IN  IF digits
        THEN [ok |-> TRUE,
              val |-> IF signed /\ t[1] = "-" THEN 0 - DigitsValue(d, base)
                      ELSE DigitsValue(d, base)]
        ELSE ValueError

-----------------------------------------------------------------------------
(* ColorConverter                                                          *)

InvalidColor == [ok |-> FALSE, rgb |-> <<>>]

Color(r, g, b) == [ok |-> TRUE, rgb |-> <<r, g, b>>]

\* hex_to_rgb, were it to drop commas along with the leading "#"
hex_to_rgb_dropping_commas(hex_color) ==
    LET h0 == RemoveChar(LStripSet(Strip(hex_color), {"#"}), ",")
        h  == IF Len(h0) = 3
              THEN <<h0[1], h0[1], h0[2], h0[2], h0[3], h0[3]>>
              ELSE h0
    IN  IF Len(h) # 6 THEN InvalidColor
        ELSE LET r == PyInt(SubSeq(h, 1, 2), 16)
                 g == PyInt(SubSeq(h, 3, 4), 16)
                 b == PyInt(SubSeq(h, 5, 6), 16)
             IN  IF r.ok /\ g.ok /\ b.ok
                 THEN Color(r.val, g.val, b.val)
                 ELSE InvalidColor

hex_to_rgb(hex_color) ==
    LET h0 == LStripSet(Strip(hex_color), {"#"})
        h  == IF Len(h0) = 3
              THEN <<h0[1], h0[1], h0[2], h0[2], h0[3], h0[3]>>
              ELSE h0
    IN  IF Len(h) # 6 THEN InvalidColor
        ELSE LET r == PyInt(SubSeq(h, 1, 2), 16)
                 g == PyInt(SubSeq(h, 3, 4), 16)
                 b == PyInt(SubSeq(h, 5, 6), 16)
             IN  IF r.ok /\ g.ok /\ b.ok
                 THEN Color(r.val, g.val, b.val)
                 ELSE InvalidColor

\* the RGB branch of parse_color, on the stripped and lowered text
rgb_branch(ci) ==
    LET cleaned == RemoveChar(RemoveChar(RemoveChar(
                       RemoveSub(ci, <<"r", "g", "b">>), "("), ")"), " ")
        parts   == Split(cleaned, ",")
    IN  IF Len(parts) # 3 THEN InvalidColor
        ELSE LET r == PyInt(parts[1], 10)
                 g == PyInt(parts[2], 10)
                 b == PyInt(parts[3], 10)
             IN  IF r.ok /\ g.ok /\ b.ok
                    /\ \A c \in {r.val, g.val, b.val} : 0 <= c /\ c <= 255
                 THEN Color(r.val, g.val, b.val)
                 ELSE InvalidColor

parse_color(text) ==
    LET ci     == Lower(Strip(text))
        tryHex == (ci # <<>> /\ ci[1] = "#")
                  \/ \A i \in DOMAIN ci : ci[i] = "," \/ ci[i] \in HexChars
    IN  IF tryHex /\ hex_to_rgb(ci).ok THEN hex_to_rgb(ci)
        ELSE rgb_branch(ci)

-----------------------------------------------------------------------------
(* NonWhiteRecolorer._apply_color_to_nonwhite                              *)
(*                                                                         *)
(* A pixel is <<r, g, b, a>> with 8-bit channels.  The code works in       *)
(* float32 on values that are, in exact arithmetic, multiples of           *)
(* 1/(3 * 255) (brightness, threshold, transition bounds) and of           *)
(* 1/TransitionWidth (distance, strength), so the model keeps their        *)
(* numerators as integers.  Comparisons between these values differ by at  *)
(* least 1/765 when they differ at all, far above float32's rounding, so   *)
(* they are decided exactly.  Only the final blend is rounded visibly: see *)
(* BlendOutcomes.                                                          *)

MaxChannel == 255

\* brightness values are numerators over Scale = 3.0 * 255.0
Scale == 3 * MaxChannel

\* transition_width = 0.6, as a numerator over Scale
TransitionWidth == (6 * Scale) \div 10

Clip(x, lo, hi) == IF x < lo THEN lo ELSE IF x > hi THEN hi ELSE x

\* brightness = (r + g + b) / 3.0 / 255.0
Brightness(p) == p[1] + p[2] + p[3]

\* whiteness = np.clip(brightness, 0.0, 1.0)
Whiteness(p) == Clip(Brightness(p), 0, Scale)

\* threshold = self.white_threshold / 255.0
Threshold(t) == 3 * t

\* transition_start = threshold - transition_width
TransitionStart(t) == Threshold(t) - TransitionWidth

\* distance = (whiteness - transition_start) / transition_width,
\* as a numerator over TransitionWidth
Distance(p, t) == Whiteness(p) - TransitionStart(t)

\* the strength, were the "1.0 -" left out
RecolorStrengthFlipped(p, t) ==
    IF Whiteness(p) >= Threshold(t) THEN 0
    ELSE Clip(Distance(p, t), 0, TransitionWidth)

\* recolor_strength = 1.0 - np.clip(distance, 0, 1), then forced to 0.0
\* where whiteness >= threshold; a numerator over TransitionWidth
RecolorStrength(p, t) ==
    IF Whiteness(p) >= Threshold(t) THEN 0
    ELSE TransitionWidth - Clip(Distance(p, t), 0, TransitionWidth)

\* The strength is the float 0.0 or 1.0 itself (the override, or a distance
\* that is clipped from below zero) rather than a rounded quotient.
StrengthIsExact(p, t) ==
    Whiteness(p) >= Threshold(t) \/ Distance(p, t) < 0

\* the mask, were it a >= 0
MaskAll(p) == p[4] >= 0

\* mask = a > 0

Mask(p) == p[4] > 0

\* np.clip(x, 0, 255).astype(np.uint8) of the exact value num / TransitionWidth
ClipToByte(num) ==
    IF num < 0 THEN 0
    ELSE IF num > MaxChannel * TransitionWidth THEN MaxChannel
    ELSE num \div TransitionWidth

\* The bytes the line
\*     r[mask] * (1 - recolor_strength[mask]) + new_color[c] * recolor_strength[mask]
\* can end as after the clip and the cast.  With an exact strength the sum is
\* an integer computed exactly.  Otherwise the float32 sum lies within
\* rounding of the exact value, which is a multiple of 1/TransitionWidth: the
\* cast truncates it to the exact floor, except that an exact value that is
\* itself an integer n may be reached from below and truncate to n - 1.
BlendOutcomes(src, target, st, exact) ==
    LET num == src * (TransitionWidth - st) + target * st
        n   == ClipToByte(num)
    IN  IF ~exact /\ num % TransitionWidth = 0 /\ n > 0 /\ num >= 0
        THEN {n - 1, n}
        ELSE {n}

\* the source value the loop blends into channel c: r[mask], for every c
BlendSource(p, c) == p[1]

\* the pixels one input pixel can become
RecolorPixel(p, color, t) ==
    IF ~Mask(p) THEN {p}
    ELSE LET st == RecolorStrength(p, t)
             ex == StrengthIsExact(p, t)
         IN  { <<x, y, z, p[4]>> :
                   x \in BlendOutcomes(BlendSource(p, 1), color[1], st, ex),
                   y \in BlendOutcomes(BlendSource(p, 2), color[2], st, ex),
                   z \in BlendOutcomes(BlendSource(p, 3), color[3], st, ex) }

\* the images _apply_color_to_nonwhite can return for img
ApplyColorToNonwhite(img, color, t) ==
    { out \in [DOMAIN img -> UNION {RecolorPixel(img[i], color, t) : i \in DOMAIN img}] :
          \A i \in DOMAIN img : out[i] \in RecolorPixel(img[i], color, t) }

-----------------------------------------------------------------------------
(* NonWhiteRecolorer._generate_output_path, with pathlib's parent and stem *)

HexDigitChar(d) ==
    CASE d = 0 -> "0" [] d = 1 -> "1" [] d = 2 -> "2" [] d = 3 -> "3"
      [] d = 4 -> "4" [] d = 5 -> "5" [] d = 6 -> "6" [] d = 7 -> "7"
      [] d = 8 -> "8" [] d = 9 -> "9" [] d = 10 -> "a" [] d = 11 -> "b"
      [] d = 12 -> "c" [] d = 13 -> "d" [] d = 14 -> "e" [] OTHER -> "f"

\* the digits of n >= 0 in the base, most significant first
RECURSIVE ToDigits(_, _)
ToDigits(n, base) ==
    IF n < base THEN <<HexDigitChar(n)>>
    ELSE ToDigits(n \div base, base) \o <<HexDigitChar(n % base)>>

\* str.rjust-like zero padding of the format spec's width
RECURSIVE ZeroPad(_, _)
ZeroPad(s, width) == IF Len(s) >= width THEN s ELSE ZeroPad(<<"0">> \o s, width)

\* f"{c:d}"
FormatDecimal(c) ==
    IF c < 0 THEN <<"-">> \o ToDigits(0 - c, 10) ELSE ToDigits(c, 10)

\* f"{c:02x}": lower-case hexadecimal, zero-padded to two characters, the
\* sign counting as one of them
FormatHex02(c) ==
    IF c < 0 THEN <<"-">> \o ZeroPad(ToDigits(0 - c, 16), 1)
    ELSE ZeroPad(ToDigits(c, 16), 2)

\* the index of the last c in s, 0 when there is none (str.rfind + 1)
LastIndexOf(s, c) ==
    IF \A i \in DOMAIN s : s[i] # c THEN 0
    ELSE CHOOSE i \in DOMAIN s : s[i] = c /\ \A j \in (i + 1)..Len(s) : s[j] # c

\* Path(p).name
PathName(p) == SubSeq(p, LastIndexOf(p, "/") + 1, Len(p))

\* str(Path(p).parent)
PathParent(p) ==
    LET k == LastIndexOf(p, "/")
    IN  IF k = 0 THEN <<".">> ELSE IF k = 1 THEN <<"/">> ELSE SubSeq(p, 1, k - 1)

\* Path(p).stem: the name up to its last dot, a leading or trailing dot
\* not counting
PathStem(p) ==
    LET name == PathName(p)
        k    == LastIndexOf(name, ".")
    IN  IF 1 < k /\ k < Len(name) THEN SubSeq(name, 1, k - 1) ELSE name

\* str(Path(parent) / name)
PathJoin(parent, name) ==
    IF parent = <<".">> THEN name
    ELSE IF parent = <<"/">> THEN parent \o name
    ELSE parent \o <<"/">> \o name

\* hex_code = f"{color[0]:02x}{color[1]:02x}{color[2]:02x}"
ColorCode(color) ==
    FormatHex02(color[1]) \o FormatHex02(color[2]) \o FormatHex02(color[3])

generate_output_path(input_path, color) ==
    PathJoin(PathParent(input_path),
             PathStem(input_path)
                 \o <<"_", "r", "e", "c", "o", "l", "o", "r", "e", "d", "_">>
                 \o ColorCode(color) \o <<".", "p", "n", "g">>)

-----------------------------------------------------------------------------
(* Inputs                                                                  *)

\* most components a generated colour text is joined from
MaxParts == 3

\* most spaces put on each side of a comma in a generated RGB text
MaxPad == 2

\* most pixels of a generated image
MaxPixels == 2

RECURSIVE Join(_, _)
Join(parts, sep) ==
    IF Len(parts) = 1 THEN parts[1]
    ELSE parts[1] \o sep \o Join(Tail(parts), sep)

Prefixes ==
    { <<>>, <<"#">>, <<"#", "#">>, <<"r", "g", "b", "(">>, <<"(">>, <<" ">> }

Suffixes == { <<>>, <<")">>, <<" ">> }

Separators == { <<>>, <<",">>, <<" ", ",", " ">> }

Components ==
    { <<"0">>, <<"2", "5", "5">>, <<"2", "5", "6">>, <<"-", "1">>,
      <<"+", "1">>, <<"f", "f">>, <<"F">>, <<"1", " ", "0">>, <<"g">> }

\* colour texts: a prefix, one to MaxParts components joined by one
\* separator, a suffix
ColorTexts ==
    { pre \o Join(cs, sep) \o post :
          pre \in Prefixes, post \in Suffixes, sep \in Separators,
          cs \in UNION { [1..n -> Components] : n \in 1..MaxParts } }

RECURSIVE Spaces(_)
Spaces(n) == IF n = 0 THEN <<>> ELSE <<" ">> \o Spaces(n - 1)

RGBForms == {"rgb()", "()", "bare"}

\* the three documented spellings of an RGB triple, pad spaces around commas
FormatRGB(form, pad, r, g, b) ==
    LET comma == Spaces(pad) \o <<",">> \o Spaces(pad)
        body  == FormatDecimal(r) \o comma \o FormatDecimal(g) \o comma
                     \o FormatDecimal(b)
    IN  CASE form = "rgb()" -> <<"r", "g", "b", "(">> \o body \o <<")">>
          [] form = "()"    -> <<"(">> \o body \o <<")">>
          [] OTHER          -> body

ChannelSamples == {0, 7, 10, 99, 100, 128, 255}

ByteSamples == {0, 100, 200, 250, 255}

AlphaSamples == {0, 128, 255}

PixelSamples ==
    { <<r, g, b, a>> : r \in ByteSamples, g \in ByteSamples, b \in ByteSamples,
                       a \in AlphaSamples }

\* the fills of the repository's test images
PalettePixels ==
    { <<0, 0, 0, 0>>, <<255, 255, 255, 255>>, <<255, 0, 0, 128>>,
      <<200, 200, 200, 255>> }

Images ==
    { <<p>> : p \in PixelSamples }
        \cup UNION { [1..n -> PalettePixels] : n \in 2..MaxPixels }

TargetColors == { <<r, g, b>> : r \in {0, 128, 255}, g \in {0, 128, 255},
                                b \in {0, 128, 255} }

ThresholdSamples == {0, 100, 153, 240, 250, 255}

-----------------------------------------------------------------------------
(* The pure operations, each applied once to a drawn input                 *)

NoRun ==
    /\ entry = None /\ argv = None /\ env = None /\ args = None
    /\ output_path = None /\ written = <<>> /\ stdout = <<>> /\ stderr = <<>>
    /\ exit_code = NotGiven /\ outcome = None

NoParse == color_input = None /\ intended = <<>> /\ parsed = None

NoEngine ==
    white_threshold = None /\ new_color = None /\ image = <<>> /\ recolored = <<>>

runVars == <<entry, argv, env, args, output_path, written, stdout, stderr,
             exit_code, outcome>>

parseVars == <<color_input, intended, parsed>>

engineVars == <<white_threshold, new_color, image, recolored>>

InitParse ==
    /\ pc = "parse_color"
    /\ color_input \in ColorTexts
    /\ intended = <<>>
    /\ parsed = None
    /\ NoRun /\ NoEngine

InitRGB ==
    /\ pc = "parse_color"
    /\ \E form \in RGBForms, pad \in 0..MaxPad, r \in 0..MaxChannel,
          g \in ChannelSamples, b \in ChannelSamples :
           /\ color_input = FormatRGB(form, pad, r, g, b)
           /\ intended = <<r, g, b>>
    /\ parsed = None
    /\ NoRun /\ NoEngine

\* ColorConverter.parse_color(color_input)
ParseColor ==
    /\ pc = "parse_color"
    /\ entry = None
    /\ parsed' = parse_color(color_input)
    /\ pc' = "parsed"
    /\ UNCHANGED <<color_input, intended, runVars, engineVars>>

NextParse == ParseColor

SpecParse == InitParse /\ [][NextParse]_vars

SpecRGB == InitRGB /\ [][NextParse]_vars

InitEngine ==
    /\ pc = "recolor"
    /\ image \in Images
    /\ new_color \in TargetColors
    /\ white_threshold \in ThresholdSamples
    /\ recolored = <<>>
    /\ NoRun /\ NoParse

\* NonWhiteRecolorer(white_threshold=t)._apply_color_to_nonwhite(image, new_color)
ApplyColor ==
    /\ pc = "recolor"
    /\ entry = None
    /\ recolored' \in ApplyColorToNonwhite(image, new_color, white_threshold)
    /\ pc' = "recolored"
    /\ UNCHANGED <<white_threshold, new_color, image, runVars, parseVars>>

NextEngine == ApplyColor

SpecEngine == InitEngine /\ [][NextEngine]_vars

-----------------------------------------------------------------------------
(* A run: CommandLineInterface.run ("cli"), or a library caller ("api")    *)
(* that constructs a NonWhiteRecolorer, parses a colour and calls          *)
(* recolor_image, as the repository's integration tests do.                *)

\* NonWhiteRecolorer.__init__'s default white_threshold
DefaultWhiteThreshold == 240

\* the default of argparse's -w/--white-threshold
CliDefaultWhiteThreshold == 250

InputFiles ==
    { <<"/", "p", "a", "t", "h", "/", "t", "o", "/", "t", "e", "s", "t", "_",
        "i", "m", "a", "g", "e", ".", "p", "n", "g">>,
      <<"l", "o", "g", "o", ".", "p", "n", "g">>,
      <<"/", "l", "o", "g", "o">> }

OutputOptions == { NotGiven, Given(<<"o", "u", "t", ".", "p", "n", "g">>) }

RunColorTexts ==
    { <<"#", "F", "F", "0", "0", "0", "0">>,
      <<"F", "0", "0">>,
      <<"r", "g", "b", "(", "0", ",", " ", "1", "2", "8", ",", " ", "2", "5", "5", ")">>,
      <<"2", "5", "6", ",", "0", ",", "0">>,
      <<"#", "-", "1", "-", "1", "-", "1">> }

CliThresholdTexts ==
    { NotGiven, Given(<<"2", "4", "0">>), Given(<<"1", "0", "0">>), Given(<<"x">>) }

ApiThresholds == { NotGiven, Given(250), Given(100) }

RunImages ==
    { <<<<255, 255, 255, 255>>, <<200, 200, 200, 255>>>>,
      <<<<245, 245, 245, 255>>>>,
      <<<<255, 250, 250, 255>>, <<0, 0, 0, 0>>>> }

\* what the run finds: whether the input file exists, decodes as an image
\* and holds which pixels, whether the output can be written, and whether
\* stdout's encoding has the check mark that run prints
Environments ==
    [exists : BOOLEAN, readable : BOOLEAN, writable : BOOLEAN,
     stdout_encodes : BOOLEAN, pixels : RunImages]

Init ==
    /\ pc = "start"
    /\ entry \in {"cli", "api"}
    /\ argv \in [input_file : InputFiles, color : RunColorTexts,
                 output : OutputOptions,
                 w : IF entry = "cli" THEN CliThresholdTexts ELSE ApiThresholds]
    /\ env \in Environments
    /\ args = None
    /\ NoParse /\ NoEngine
    /\ output_path = None /\ written = <<>> /\ stdout = <<>> /\ stderr = <<>>
    /\ exit_code = NotGiven /\ outcome = None

\* the handler, were it to exit with status 0
RaiseExitsZero(exc) ==
    IF entry = "cli"
    THEN /\ stderr' = Append(stderr, [error |-> exc])
         /\ exit_code' = Given(0)
         /\ pc' = "exited"
         /\ UNCHANGED outcome
    ELSE /\ outcome' = [raised |-> exc]
         /\ pc' = "raised"
         /\ UNCHANGED <<stderr, exit_code>>

\* except Exception as e: print(..., file=sys.stderr); sys.exit(1) in run;
\* a library caller sees the exception itself
Raise(exc) ==
    IF entry = "cli"
    THEN /\ stderr' = Append(stderr, [error |-> exc])
         /\ exit_code' = Given(1)
         /\ pc' = "exited"
         /\ UNCHANGED outcome
    ELSE /\ outcome' = [raised |-> exc]
         /\ pc' = "raised"
         /\ UNCHANGED <<stderr, exit_code>>

Proceed(next) == pc' = next /\ UNCHANGED <<stderr, exit_code, outcome>>

\* NonWhiteRecolorer.__init__(white_threshold=kw)
NonWhiteRecolorerInit(kw) == IF kw = NotGiven THEN DefaultWhiteThreshold ELSE kw[1]

\* the arguments recolor_image is called with
CallArgs == IF entry = "cli" THEN args ELSE argv

\* parse_arguments: argparse converts -w with int() and, on a bad value,
\* prints its usage error and exits with status 2 before run's try block
ParseArguments ==
    /\ pc = "start" /\ entry = "cli"
    /\ LET w == IF argv.w = NotGiven
                THEN [ok |-> TRUE, val |-> CliDefaultWhiteThreshold]
                ELSE PyInt(argv.w[1], 10)
       IN  IF w.ok
           THEN /\ args' = [input_file |-> argv.input_file, color |-> argv.color,
                            output |-> argv.output, white_threshold |-> w.val]
                /\ Proceed("parse_color")
           ELSE /\ stderr' = Append(stderr, [error |-> "usage"])
                /\ exit_code' = Given(2)
                /\ pc' = "exited"
                /\ UNCHANGED <<args, outcome>>
    /\ UNCHANGED <<entry, argv, env, parseVars, engineVars, output_path,
                   written, stdout>>

\* the library caller's NonWhiteRecolorer(...) (the tests' setUp)
ApiConstruct ==
    /\ pc = "start" /\ entry = "api"
    /\ white_threshold' = NonWhiteRecolorerInit(argv.w)
    /\ Proceed("parse_color")
    /\ UNCHANGED <<entry, argv, env, args, parseVars, new_color, image,
                   recolored, output_path, written, stdout>>

\* color = self.converter.parse_color(args.color)
RunParseColor ==
    /\ pc = "parse_color" /\ entry # None
    /\ color_input' = CallArgs.color
    /\ parsed' = parse_color(CallArgs.color)
    /\ IF parsed'.ok
       THEN /\ new_color' = parsed'.rgb
            /\ Proceed(IF entry = "cli" THEN "construct" ELSE "exists")
       ELSE /\ Raise("ValueError")
            /\ UNCHANGED new_color
    /\ UNCHANGED <<entry, argv, env, args, intended, white_threshold, image,
                   recolored, output_path, written, stdout>>

\* recolorer = NonWhiteRecolorer(white_threshold=args.white_threshold)
CliConstruct ==
    /\ pc = "construct" /\ entry = "cli"
    /\ white_threshold' = NonWhiteRecolorerInit(Given(args.white_threshold))
    /\ Proceed("exists")
    /\ UNCHANGED <<entry, argv, env, args, parseVars, new_color, image,
                   recolored, output_path, written, stdout>>

\* recolor_image: if not input_path.exists(): raise FileNotFoundError
CheckExists ==
    /\ pc = "exists"
    /\ IF env.exists THEN Proceed("derive") ELSE Raise("FileNotFoundError")
    /\ UNCHANGED <<entry, argv, env, args, parseVars, engineVars, output_path,
                   written, stdout>>

\* recolor_image: if output_path is None: output_path = self._generate_output_path(...)
DerivePath ==
    /\ pc = "derive"
    /\ output_path' = IF CallArgs.output = NotGiven
                      THEN generate_output_path(CallArgs.input_file, new_color)
                      ELSE CallArgs.output[1]
    /\ Proceed("load")
    /\ UNCHANGED <<entry, argv, env, args, parseVars, engineVars, written, stdout>>

\* recolor_image: Image.open(input_path), img.convert("RGBA")
Load ==
    /\ pc = "load"
    /\ IF env.readable
       THEN image' = env.pixels /\ Proceed("recolor")
       ELSE Raise("UnidentifiedImageError") /\ UNCHANGED image
    /\ UNCHANGED <<entry, argv, env, args, parseVars, white_threshold, new_color,
                   recolored, output_path, written, stdout>>

\* recolor_image: recolored_img = self._apply_color_to_nonwhite(rgba_img, color)
Recolor ==
    /\ pc = "recolor" /\ entry # None
    /\ recolored' \in ApplyColorToNonwhite(image, new_color, white_threshold)
    /\ Proceed("save")
    /\ UNCHANGED <<entry, argv, env, args, parseVars, white_threshold, new_color,
                   image, output_path, written, stdout>>

\* recolor_image: recolored_img.save(output_path, "PNG", optimize=True).
\* The codec either writes the whole file or raises and leaves none.
Save ==
    /\ pc = "save"
    /\ IF env.writable
       THEN /\ written' = Append(written, [path |-> output_path, pixels |-> recolored])
            /\ Proceed("return")
       ELSE /\ Raise("OSError")
            /\ UNCHANGED written
    /\ UNCHANGED <<entry, argv, env, args, parseVars, engineVars, output_path,
                   stdout>>

\* recolor_image: return str(output_path); run: print(... Saved to: out_path)
\* inside the try block, after which the process ends with status 0.  The
\* printed line starts with a check mark, which print() cannot encode on an
\* ASCII or cp1252 stdout: it raises UnicodeEncodeError into the handler.
Return ==
    /\ pc = "return"
    /\ IF entry = "cli"
       THEN IF env.stdout_encodes
            THEN /\ stdout' = Append(stdout, [saved |-> output_path])
                 /\ exit_code' = Given(0)
                 /\ pc' = "exited"
                 /\ UNCHANGED <<stderr, outcome>>
            ELSE /\ Raise("UnicodeEncodeError")
                 /\ UNCHANGED stdout
       ELSE /\ outcome' = [returned |-> output_path]
            /\ pc' = "returned"
            /\ UNCHANGED <<stdout, stderr, exit_code>>
    /\ UNCHANGED <<entry, argv, env, args, parseVars, engineVars, output_path,
                   written>>

Next ==
    \/ ParseArguments
    \/ ApiConstruct
    \/ RunParseColor
    \/ CliConstruct
    \/ CheckExists
    \/ DerivePath
    \/ Load
    \/ Recolor
    \/ Save
    \/ Return

Spec == Init /\ [][Next]_vars

-----------------------------------------------------------------------------
(* Properties                                                              *)

RGBOf(p) == <<p[1], p[2], p[3]>>

\* C1: every opaque or semi-opaque pixel's output channel c is the clamped,
\* truncated blend input_c * (1 - strength) + target_c * strength of that
\* pixel's own channel c (float32 rounding of the blend allowed for).
C1_BlendsOwnChannel ==
    pc = "recolored" =>
        \A i \in DOMAIN image :
            Mask(image[i]) =>
                \A c \in 1..3 :
                    recolored[i][c] \in
                        BlendOutcomes(image[i][c], new_color[c],
                                      RecolorStrength(image[i], white_threshold),
                                      StrengthIsExact(image[i], white_threshold))

\* C2: a pixel whose brightness (R+G+B)/3 is at or above the white threshold
\* keeps its R, G and B, whatever the target colour.
C2_WhiteExempt ==
    pc = "recolored" =>
        \A i \in DOMAIN image :
            Brightness(image[i]) >= 3 * white_threshold =>
                RGBOf(recolored[i]) = RGBOf(image[i])

\* C3: recolouring keeps every pixel's alpha, and keeps the R, G, B of every
\* pixel whose alpha is 0.
C3_AlphaPreserved ==
    pc = "recolored" =>
        /\ Len(recolored) = Len(image)
        /\ \A i \in DOMAIN image :
               /\ recolored[i][4] = image[i][4]
               /\ image[i][4] = 0 => recolored[i] = image[i]

\* C3's case: a semi-transparent pixel was blended next to a fully
\* transparent one, which was not.
C3_Witness ==
    /\ pc = "recolored"
    /\ image = <<<<255, 0, 0, 128>>, <<0, 0, 0, 0>>>>
    /\ new_color = <<0, 0, 255>>
    /\ RGBOf(recolored[1]) # RGBOf(image[1])
    /\ recolored[1][4] = 128
    /\ recolored[2] = <<0, 0, 0, 0>>

\* C4: with threshold 250 a black pixel with alpha > 0 has strength 1 and
\* comes out as the target colour in all three channels.
C4_BlackBecomesTarget ==
    (pc = "recolored" /\ white_threshold = 250) =>
        \A i \in DOMAIN image :
            (RGBOf(image[i]) = <<0, 0, 0>> /\ image[i][4] > 0) =>
                /\ RecolorStrength(image[i], white_threshold) = TransitionWidth
                /\ RGBOf(recolored[i]) = new_color

\* C4's case: an opaque black pixel recoloured at threshold 250.
C4_Witness ==
    /\ pc = "recolored"
    /\ white_threshold = 250
    /\ image = <<<<0, 0, 0, 255>>>>
    /\ new_color = <<255, 0, 128>>
    /\ recolored = <<<<255, 0, 128, 255>>>>

\* the documented HEX form: 3 or 6 hex digits, with or without one "#"
DocumentedHex(t) ==
    LET h == IF t # <<>> /\ t[1] = "#" THEN Tail(t) ELSE t
    IN  Len(h) \in {3, 6} /\ \A i \in DOMAIN h : LowerChar(h[i]) \in HexChars

\* the documented RGB form: three comma-separated integers in 0..255, with
\* whitespace around the commas, bare or inside rgb(...) or (...)
DocumentedRGB(t) ==
    LET n     == Len(t)
        inner == IF n >= 5 /\ Lower(SubSeq(t, 1, 4)) = <<"r", "g", "b", "(">>
                    /\ t[n] = ")"
                 THEN SubSeq(t, 5, n - 1)
                 ELSE IF n >= 2 /\ t[1] = "(" /\ t[n] = ")"
                      THEN SubSeq(t, 2, n - 1)
                      ELSE t
        parts == Split(inner, ",")
    IN  /\ Len(parts) = 3
        /\ \A k \in 1..3 :
               LET d == Strip(parts[k])
               IN  /\ d # <<>>
                   /\ \A i \in DOMAIN d : d[i] \in DecDigits
                   /\ DigitsValue(d, 10) <= 255

Documented(text) == DocumentedHex(Strip(text)) \/ DocumentedRGB(Strip(text))

\* C5: parse_color raises the invalid-colour error for every text that is
\* not one of the documented HEX or RGB forms.
C5_UndocumentedRejected ==
    pc = "parsed" => (Documented(color_input) \/ ~parsed.ok)

\* C6: parse_color raises or returns three integers, each in 0..255.
C6_ComponentsInRange ==
    pc = "parsed" =>
        \/ ~parsed.ok
        \/ /\ Len(parsed.rgb) = 3
           /\ \A i \in 1..3 : 0 <= parsed.rgb[i] /\ parsed.rgb[i] <= 255

\* C7: for r, g, b in 0..255, parse_color returns (r, g, b) for
\* "rgb(r,g,b)", "(r,g,b)" and "r,g,b", with or without spaces around the
\* commas, and never a HEX reading of the text.
C7_RGBFormsParse ==
    pc = "parsed" => parsed = Color(intended[1], intended[2], intended[3])

\* C7's case: a bare triple six characters long, all of them hex digits or
\* commas, which the HEX branch tries first.
C7_Witness ==
    /\ pc = "parsed"
    /\ color_input = <<"1", "0", ",", "0", ",", "0">>
    /\ parsed = Color(10, 0, 0)

CliSteps ==
    <<"start", "parse_color", "construct", "exists", "derive", "load",
      "recolor", "save", "return", "exited">>

\* every step up to and including the save succeeds in this environment
AllStepsSucceed ==
    /\ argv.w = NotGiven \/ PyInt(argv.w[1], 10).ok
    /\ parse_color(argv.color).ok
    /\ env.exists /\ env.readable /\ env.writable

C8_Outcome ==
    entry = "cli" =>
        /\ pc # "exited" =>
               exit_code = NotGiven /\ stdout = <<>> /\ stderr = <<>>
        /\ written # <<>> =>
               /\ AllStepsSucceed
               /\ pc \in {"return", "exited"}
               /\ written = <<[path |-> output_path, pixels |-> recolored]>>
        /\ pc = "exited" =>
               /\ exit_code # NotGiven
               /\ ~AllStepsSucceed => (exit_code # Given(0) /\ written = <<>>)
               /\ (exit_code = Given(0)) <=> (AllStepsSucceed /\ env.stdout_encodes)
               /\ IF exit_code = Given(0)
                  THEN /\ Len(written) = 1
                       /\ stdout = <<[saved |-> output_path]>>
                       /\ stderr = <<>>
                  ELSE /\ stdout = <<>>
                       /\ Len(stderr) = 1

C8_Step ==
    entry = "cli" =>
        \/ \E k \in 1..8 : pc = CliSteps[k] /\ pc' = CliSteps[k + 1]
        \/ /\ pc \in {"start", "parse_color", "exists", "load", "save"}
           /\ pc' = "exited"
           /\ exit_code' \notin {NotGiven, Given(0)}
           /\ written' = <<>>
        \/ pc = "return" /\ pc' = "exited"

\* C8: a command-line run takes its steps in order (parse colour, check the
\* input exists, derive the output path, load, recolour, save); a failure at
\* a step ends the run there with a non-zero status, one message on stderr,
\* nothing on stdout and no file written; only a run whose every step
\* succeeds writes one file, prints its path and exits 0.
C8_FailFastRun == []C8_Outcome /\ [][C8_Step]_vars

\* C8's case: a run that got as far as saving, failed there and exited 1.
C8_Witness ==
    /\ entry = "cli"
    /\ pc = "exited"
    /\ exit_code = Given(1)
    /\ stderr = <<[error |-> "OSError"]>>
    /\ recolored # <<>>
    /\ written = <<>>

\* C9: with no threshold supplied, the engine's white threshold is 250, for
\* a command-line run and for a NonWhiteRecolorer built with its defaults.
C9_DefaultThreshold ==
    (pc \in {"recolor", "save"} /\ argv.w = NotGiven) => white_threshold = 250

\* the colour as the decimal text "rgb(r,g,b)"
ColorCodeDecimal(color) ==
    <<"r", "g", "b", "(">> \o FormatDecimal(color[1]) \o <<",">>
        \o FormatDecimal(color[2]) \o <<",">> \o FormatDecimal(color[3]) \o <<")">>

\* the file name the repository's tests expect
ExpectedOutputPath(input_path, color) ==
    PathJoin(PathParent(input_path),
             PathStem(input_path)
                 \o <<"_", "r", "e", "c", "o", "l", "o", "r", "e", "d", "_">>
                 \o ColorCodeDecimal(color) \o <<".", "p", "n", "g">>)

\* C10: with no output path given, the derived path is
\* <dir>/<stem>_recolored_rgb(r,g,b).png, and recolor_image returns it.
C10_DerivedName ==
    /\ (pc \in {"load", "recolor", "save", "return"} /\ argv.output = NotGiven) =>
           output_path = ExpectedOutputPath(argv.input_file, new_color)
    /\ (pc = "returned" /\ argv.output = NotGiven) =>
           outcome = [returned |-> ExpectedOutputPath(argv.input_file, new_color)]

=============================================================================
